---- MODULE Spec2Model ----
(***************************************************************************)
(* Model of backend/server.py: the key normaliser, the Camelot codec and   *)
(* the track / playlist handlers with the per-playlist track_count that    *)
(* the handlers maintain through the record store.                         *)
(*                                                                         *)
(* The specifications share the state:                                     *)
(*   Spec       every handler runs to completion as one step (completed,   *)
(*              non-overlapping requests);                                 *)
(*   SpecConc   two request workers, one step per awaited store call, so   *)
(*              that the store calls of different requests interleave;     *)
(*   SpecLookup Spec with the read handlers (get by id, suggestions);      *)
(*   SpecEnergy create_track / update_track with arbitrary energies;       *)
(*   SpecKey    create_track / update_track with arbitrary key strings;    *)
(*   SpecAI     analyze_with_ai over the replies of the external model;    *)
(*   SpecCodec  the normaliser and the codec applied to single inputs;     *)
(*   SpecFail   track handlers whose store calls can raise partway;        *)
(*   SpecConcAll  SpecConc with the store calls of update_playlist;        *)
(*   SpecLibrary  suggestions over libraries of tracks in every key;       *)
(*   SpecWheel  get_harmonic_keys applied to single strings.               *)
(***************************************************************************)
EXTENDS Integers, Sequences, FiniteSets, TLC

VARIABLES
    tracks,      \* db.tracks: track id -> stored track document
    playlists,   \* db.playlists: playlist id -> stored playlist document
    nTracks,     \* number of track ids generated so far (uuid4, never reused)
    nPlaylists,  \* number of playlist ids generated so far (uuid4, never reused)
    last,        \* the most recently completed request and its response (Spec)
    workers,     \* SpecConc: each request worker's position and locals
    net          \* SpecConc: per playlist, sum of the count deltas issued by
                 \* the requests that have finished

vars == <<tracks, playlists, nTracks, nPlaylists, last, workers, net>>

(***************************************************************************)
(* Bounds                                                                  *)
(***************************************************************************)
MaxTracks == 2        \* track ids that create_track may generate
MaxPlaylists == 2     \* playlist ids that create_playlist may generate
MaxDeficit == 2       \* no decrement is explored below -MaxDeficit
MaxPad == 1           \* whitespace characters on either side of a key string
MaxShuffle == 4       \* find() results up to this size come in every order
MaxCodeLen == 3       \* characters of an arbitrary string given to get_harmonic_keys
MaxLibrary == 2       \* tracks of a library drawn from every key

(***************************************************************************)
(* Values                                                                  *)
(***************************************************************************)
\* Optional[str]: None is the empty tuple, a string s is <<s>>.
None == <<>>
Some(s) == <<s>>

\* Python truthiness of an Optional[str]: None and "" are falsy.
Truthy(o) == o # None /\ o[1] # ""

\* the ids uuid4 hands out, in order of generation
TrackIdOf(n) == "t" \o ToString(n)
PlaylistIdOf(n) == <<"p1", "p2", "p3", "p4">>[n]

\* a well-formed id that no playlist ever had
GhostId == "p0"

IssuedTrackIds == {TrackIdOf(n) : n \in 1..nTracks}
IssuedPlaylistIds == {PlaylistIdOf(n) : n \in 1..nPlaylists}

\* A str as far as str.strip() can tell: leading whitespace, the stripped
\* core, trailing whitespace.
Text(lead, core, trail) == <<lead, core, trail>>
Plain(core) == Text(0, core, 0)
strip(s) == Plain(s[2])

(***************************************************************************)
(* Camelot wheel tables (server.py 30-73)                                  *)
(***************************************************************************)
DigitChar == <<"0", "1", "2", "3", "4", "5", "6", "7", "8", "9">>

\* str(n), as a sequence of characters
RECURSIVE IntToStr(_)
IntToStr(n) ==
    IF n < 0 THEN <<"-">> \o IntToStr(-n)
    ELSE IF n < 10 THEN <<DigitChar[n + 1]>>
    ELSE IntToStr(n \div 10) \o <<DigitChar[(n % 10) + 1]>>

\* f"{num}{letter}"
FormatCode(num, letter) == IntToStr(num) \o <<letter>>

\* mutant: 12B is entered as B major, which 1B already has
CamelotEntries_typo == <<
    <<FormatCode(1, "A"), "Ab minor">>,  <<FormatCode(1, "B"), "B major">>,
    <<FormatCode(2, "A"), "Eb minor">>,  <<FormatCode(2, "B"), "Gb major">>,
    <<FormatCode(3, "A"), "Bb minor">>,  <<FormatCode(3, "B"), "Db major">>,
    <<FormatCode(4, "A"), "F minor">>,   <<FormatCode(4, "B"), "Ab major">>,
    <<FormatCode(5, "A"), "C minor">>,   <<FormatCode(5, "B"), "Eb major">>,
    <<FormatCode(6, "A"), "G minor">>,   <<FormatCode(6, "B"), "Bb major">>,
    <<FormatCode(7, "A"), "D minor">>,   <<FormatCode(7, "B"), "F major">>,
    <<FormatCode(8, "A"), "A minor">>,   <<FormatCode(8, "B"), "C major">>,
    <<FormatCode(9, "A"), "E minor">>,   <<FormatCode(9, "B"), "G major">>,
    <<FormatCode(10, "A"), "B minor">>,  <<FormatCode(10, "B"), "D major">>,
    <<FormatCode(11, "A"), "Gb minor">>, <<FormatCode(11, "B"), "A major">>,
    <<FormatCode(12, "A"), "Db minor">>, <<FormatCode(12, "B"), "B major">> >>

\* the dict literal, in source order: <<code, key name>>
CamelotEntries == <<
    <<FormatCode(1, "A"), "Ab minor">>,  <<FormatCode(1, "B"), "B major">>,
    <<FormatCode(2, "A"), "Eb minor">>,  <<FormatCode(2, "B"), "Gb major">>,
    <<FormatCode(3, "A"), "Bb minor">>,  <<FormatCode(3, "B"), "Db major">>,
    <<FormatCode(4, "A"), "F minor">>,   <<FormatCode(4, "B"), "Ab major">>,
    <<FormatCode(5, "A"), "C minor">>,   <<FormatCode(5, "B"), "Eb major">>,
    <<FormatCode(6, "A"), "G minor">>,   <<FormatCode(6, "B"), "Bb major">>,
    <<FormatCode(7, "A"), "D minor">>,   <<FormatCode(7, "B"), "F major">>,
    <<FormatCode(8, "A"), "A minor">>,   <<FormatCode(8, "B"), "C major">>,
    <<FormatCode(9, "A"), "E minor">>,   <<FormatCode(9, "B"), "G major">>,
    <<FormatCode(10, "A"), "B minor">>,  <<FormatCode(10, "B"), "D major">>,
    <<FormatCode(11, "A"), "Gb minor">>, <<FormatCode(11, "B"), "A major">>,
    <<FormatCode(12, "A"), "Db minor">>, <<FormatCode(12, "B"), "E major">> >>

\* the dict a literal or comprehension builds from its first n entries,
\* column kc the key and column vc the value: a later entry with the same
\* key overwrites an earlier one
RECURSIVE DictOf(_, _, _, _)
DictOf(entries, kc, vc, n) ==
    IF n = 0 THEN <<>>
    ELSE (entries[n][kc] :> entries[n][vc]) @@ DictOf(entries, kc, vc, n - 1)

CAMELOT_TO_KEY == DictOf(CamelotEntries, 1, 2, Len(CamelotEntries))

\* {v: k for k, v in CAMELOT_TO_KEY.items()}
KEY_TO_CAMELOT == DictOf(CamelotEntries, 2, 1, Len(CamelotEntries))

\* mutant: the sharp spelling F# minor is a standard name of its own and
\* also an alternative of Gb minor
ALT_KEY_NAMES_chained == <<
    <<"Ab minor", <<"G# minor", "G#m", "Abm">> >>,
    <<"Eb minor", <<"D# minor", "D#m", "Ebm">> >>,
    <<"Bb minor", <<"A# minor", "A#m", "Bbm">> >>,
    <<"F minor", <<"Fm">> >>,
    <<"C minor", <<"Cm">> >>,
    <<"G minor", <<"Gm">> >>,
    <<"D minor", <<"Dm">> >>,
    <<"A minor", <<"Am">> >>,
    <<"E minor", <<"Em">> >>,
    <<"B minor", <<"Bm">> >>,
    <<"F# minor", <<"F#m">> >>,
    <<"Gb minor", <<"F# minor", "Gbm">> >>,
    <<"Db minor", <<"C# minor", "C#m", "Dbm">> >>,
    <<"B major", <<"Bmaj", "B">> >>,
    <<"Gb major", <<"F# major", "F#maj", "F#", "Gb">> >>,
    <<"Db major", <<"C# major", "C#maj", "C#", "Db">> >>,
    <<"Ab major", <<"G# major", "G#maj", "G#", "Ab">> >>,
    <<"Eb major", <<"D# major", "D#maj", "D#", "Eb">> >>,
    <<"Bb major", <<"A# major", "A#maj", "A#", "Bb">> >>,
    <<"F major", <<"Fmaj", "F">> >>,
    <<"C major", <<"Cmaj", "C">> >>,
    <<"G major", <<"Gmaj", "G">> >>,
    <<"D major", <<"Dmaj", "D">> >>,
    <<"A major", <<"Amaj", "A">> >>,
    <<"E major", <<"Emaj", "E">> >> >>

\* the alias dict, in source order: <<standard name, list of alternatives>>
ALT_KEY_NAMES == <<
    <<"Ab minor", <<"G# minor", "G#m", "Abm">> >>,
    <<"Eb minor", <<"D# minor", "D#m", "Ebm">> >>,
    <<"Bb minor", <<"A# minor", "A#m", "Bbm">> >>,
    <<"F minor", <<"Fm">> >>,
    <<"C minor", <<"Cm">> >>,
    <<"G minor", <<"Gm">> >>,
    <<"D minor", <<"Dm">> >>,
    <<"A minor", <<"Am">> >>,
    <<"E minor", <<"Em">> >>,
    <<"B minor", <<"Bm">> >>,
    <<"Gb minor", <<"F# minor", "F#m", "Gbm">> >>,
    <<"Db minor", <<"C# minor", "C#m", "Dbm">> >>,
    <<"B major", <<"Bmaj", "B">> >>,
    <<"Gb major", <<"F# major", "F#maj", "F#", "Gb">> >>,
    <<"Db major", <<"C# major", "C#maj", "C#", "Db">> >>,
    <<"Ab major", <<"G# major", "G#maj", "G#", "Ab">> >>,
    <<"Eb major", <<"D# major", "D#maj", "D#", "Eb">> >>,
    <<"Bb major", <<"A# major", "A#maj", "A#", "Bb">> >>,
    <<"F major", <<"Fmaj", "F">> >>,
    <<"C major", <<"Cmaj", "C">> >>,
    <<"G major", <<"Gmaj", "G">> >>,
    <<"D major", <<"Dmaj", "D">> >>,
    <<"A major", <<"Amaj", "A">> >>,
    <<"E major", <<"Emaj", "E">> >> >>

\* the sentinel get_camelot_from_key returns for an unmapped key
Unmapped == <<"?">>

(***************************************************************************)
(* Key normaliser and codec (server.py 75-88)                              *)
(***************************************************************************)
\* what the loop over ALT_KEY_NAMES.items() returns for each alias: the
\* standard name of the first entry, in source order, that lists it
RECURSIVE AliasOwnerFrom(_)
AliasOwnerFrom(i) ==
    IF i > Len(ALT_KEY_NAMES) THEN <<>>
    ELSE [a \in {ALT_KEY_NAMES[i][2][j] : j \in 1..Len(ALT_KEY_NAMES[i][2])} |->
             ALT_KEY_NAMES[i][1]] @@ AliasOwnerFrom(i + 1)

AliasOwner == AliasOwnerFrom(1)

\* mutant: an unrecognised key is returned as submitted, not trimmed
normalize_key_untrimmed(key) ==
    LET k == strip(key)
    IN  IF k[2] \in DOMAIN KEY_TO_CAMELOT THEN k
        ELSE IF k[2] \in DOMAIN AliasOwner THEN Plain(AliasOwner[k[2]])
        ELSE key

normalize_key(key) ==
    LET k == strip(key)
    IN  IF k[2] \in DOMAIN KEY_TO_CAMELOT THEN k
        ELSE IF k[2] \in DOMAIN AliasOwner THEN Plain(AliasOwner[k[2]])
        ELSE k

\* mutant: the default of the lookup is the empty string
get_camelot_from_key_blank(key) ==
    LET normalized == normalize_key(key)
    IN  IF normalized[2] \in DOMAIN KEY_TO_CAMELOT
        THEN KEY_TO_CAMELOT[normalized[2]]
        ELSE <<>>

\* mutant: the key is looked up as submitted, without normalising it
get_camelot_from_key_raw(key) ==
    IF key = Plain(key[2]) /\ key[2] \in DOMAIN KEY_TO_CAMELOT
    THEN KEY_TO_CAMELOT[key[2]]
    ELSE Unmapped

get_camelot_from_key(key) ==
    LET normalized == normalize_key(key)
    IN  IF normalized[2] \in DOMAIN KEY_TO_CAMELOT
        THEN KEY_TO_CAMELOT[normalized[2]]
        ELSE Unmapped

\* mutant: only the upper limit is applied
ClampEnergy_upper_only(energy) == IF energy < 10 THEN energy ELSE 10

\* max(1, min(10, energy))
ClampEnergy(energy) ==
    LET lo == IF energy < 10 THEN energy ELSE 10
    IN  IF lo > 1 THEN lo ELSE 1

\* a non-empty string of decimal digits
IsDigits(s) ==
    Len(s) > 0 /\ \A i \in 1..Len(s) : \E d \in 1..10 : DigitChar[d] = s[i]

DigitValue(c) == (CHOOSE d \in 1..10 : DigitChar[d] = c) - 1

\* the value of a string of decimal digits
RECURSIVE StrToInt(_)
StrToInt(s) ==
    IF Len(s) = 0 THEN 0
    ELSE 10 * StrToInt(SubSeq(s, 1, Len(s) - 1)) + DigitValue(s[Len(s)])

\* What int(s) reads: s without the whitespace around it and without one
\* leading sign.  sign is -1 when that sign is a minus.
IntBody(s) ==
    LET inked == {i \in 1..Len(s) : s[i] # " "}
        lo == CHOOSE i \in inked : \A j \in inked : i <= j
        hi == CHOOSE i \in inked : \A j \in inked : i >= j
        signed == inked # {} /\ s[lo] \in {"+", "-"}
    IN  IF inked = {} THEN [sign |-> 1, digits |-> <<>>]
        ELSE [sign |-> IF s[lo] = "-" THEN -1 ELSE 1,
              digits |-> SubSeq(s, IF signed THEN lo + 1 ELSE lo, hi)]

\* int(s) returns a value: the body is decimal digits, with single
\* underscores allowed between digits; otherwise int(s) raises ValueError
ParsesAsInt(s) ==
    LET b == IntBody(s).digits
    IN  /\ Len(b) > 0
        /\ b[1] # "_" /\ b[Len(b)] # "_"
        /\ \A i \in 1..Len(b) - 1 : ~(b[i] = "_" /\ b[i + 1] = "_")
        /\ IsDigits(SelectSeq(b, LAMBDA c : c # "_"))

\* int(s) of a string that parses
ParseInt(s) ==
    IntBody(s).sign * StrToInt(SelectSeq(IntBody(s).digits, LAMBDA c : c # "_"))

\* mutant: the wheel does not wrap, 12 is followed by 13 and 1 by 0
get_harmonic_keys_nowrap(camelot) ==
    IF Len(camelot) < 2 THEN <<>>
    ELSE IF ~ParsesAsInt(SubSeq(camelot, 1, Len(camelot) - 1)) THEN <<>>
    ELSE LET num == ParseInt(SubSeq(camelot, 1, Len(camelot) - 1))
             letter == camelot[Len(camelot)]
             other_letter == IF letter = "A" THEN "B" ELSE "A"
         IN  <<camelot, FormatCode(num + 1, letter), FormatCode(num - 1, letter),
               FormatCode(num, other_letter)>>

\* mutant: the step down on the wheel is left out
get_harmonic_keys_oneway(camelot) ==
    IF Len(camelot) < 2 THEN <<>>
    ELSE IF ~ParsesAsInt(SubSeq(camelot, 1, Len(camelot) - 1)) THEN <<>>
    ELSE LET num == ParseInt(SubSeq(camelot, 1, Len(camelot) - 1))
             letter == camelot[Len(camelot)]
             other_letter == IF letter = "A" THEN "B" ELSE "A"
         IN  <<camelot, FormatCode((num % 12) + 1, letter), FormatCode(num, other_letter)>>

\* get_harmonic_keys (server.py 90-114): the code itself, one step up, one
\* step down on the wheel, and the same number with the other letter
get_harmonic_keys(camelot) ==
    IF Len(camelot) < 2 THEN <<>>
    ELSE IF ~ParsesAsInt(SubSeq(camelot, 1, Len(camelot) - 1)) THEN <<>>
    ELSE LET num == ParseInt(SubSeq(camelot, 1, Len(camelot) - 1))
             letter == camelot[Len(camelot)]
             next_num == (num % 12) + 1
             prev_num == ((num - 2) % 12) + 1
             other_letter == IF letter = "A" THEN "B" ELSE "A"
         IN  <<camelot, FormatCode(next_num, letter), FormatCode(prev_num, letter),
               FormatCode(num, other_letter)>>

(***************************************************************************)
(* Record store primitives (motor collection calls used by the handlers)   *)
(***************************************************************************)
\* find_one({"id": id}) returns a document or None
Found(coll, id) == id \in DOMAIN coll

\* insert_one(doc) of a document with a freshly generated id
insert_one(coll, id, doc) ==
    [x \in DOMAIN coll \cup {id} |-> IF x = id THEN doc ELSE coll[x]]

\* mutant: $set with upsert, a document is created when none matched
update_one_set_upsert(coll, id, fields) ==
    [x \in DOMAIN coll \cup {id} |->
        IF x \in DOMAIN coll THEN (IF x = id THEN fields @@ coll[x] ELSE coll[x])
        ELSE fields]

\* update_one({"id": id}, {"$set": fields}): no document matched, no change
update_one_set(coll, id, fields) ==
    [x \in DOMAIN coll |-> IF x = id THEN fields @@ coll[x] ELSE coll[x]]

\* mutant: the count is written with $set instead of being incremented
update_one_inc_overwrite(coll, id, d) ==
    [x \in DOMAIN coll |->
        IF x = id THEN [coll[x] EXCEPT !.track_count = d] ELSE coll[x]]

\* update_one({"id": id}, {"$inc": {"track_count": d}}): applied by the
\* store in one indivisible step to the value it holds; no match, no change
update_one_inc(coll, id, d) ==
    [x \in DOMAIN coll |->
        IF x = id THEN [coll[x] EXCEPT !.track_count = @ + d] ELSE coll[x]]

\* delete_one({"id": id})
delete_one(coll, id) == [x \in DOMAIN coll \ {id} |-> coll[x]]

\* mutant: the filter is dropped, every track is unassigned
update_many_unassign_all(coll, pid) ==
    [x \in DOMAIN coll |-> [coll[x] EXCEPT !.playlist_id = None]]

\* update_many({"playlist_id": pid}, {"$set": {"playlist_id": None}})
update_many_unassign(coll, pid) ==
    [x \in DOMAIN coll |->
        IF coll[x].playlist_id = Some(pid)
        THEN [coll[x] EXCEPT !.playlist_id = None] ELSE coll[x]]

\* count of tracks whose playlist_id equals pid
Assigned(pid) == Cardinality({t \in DOMAIN tracks : tracks[t].playlist_id = Some(pid)})

(***************************************************************************)
(* Handler bodies, as functions of the request and of what was read        *)
(***************************************************************************)
\* create_track: the Track built from a TrackCreate (server.py 203-220)
NewTrack(req) ==
    [title        |-> req.title,
     key          |-> normalize_key(req.key),
     camelot_key  |-> get_camelot_from_key(req.key),
     energy       |-> ClampEnergy(req.energy),
     playlist_id  |-> req.playlist_id]

\* create_playlist: the Playlist built from a PlaylistCreate (398-402)
NewPlaylist(req) == [name |-> req.name, track_count |-> 0]

\* update_track: update_dict (server.py 282-293).  A TrackUpdate field is
\* None (absent or null) or Some(value); the assignment keeps the Optional.
UpdateDict(req) ==
    LET given == {f \in DOMAIN req : req[f] # None}
    IN  [f \in given \cup (IF "key" \in given THEN {"camelot_key"} ELSE {}) |->
            CASE f = "key" -> normalize_key(req.key[1])
              [] f = "camelot_key" -> get_camelot_from_key(normalize_key(req.key[1]))
              [] f = "energy" -> ClampEnergy(req.energy[1])
              [] f = "playlist_id" -> req.playlist_id
              [] OTHER -> req[f][1]]

\* update_dict.get("playlist_id")
NewPlaylistId(req) ==
    IF "playlist_id" \in DOMAIN UpdateDict(req) THEN UpdateDict(req).playlist_id ELSE None

\* mutant: the old playlist's count is not decremented
DecOld_forgotten(pl, old, new) == pl

\* update_track: the playlist count updates (server.py 298-308)
DecOld(pl, old, new) ==
    IF old # new /\ Truthy(old) THEN update_one_inc(pl, old[1], -1) ELSE pl

IncNew(pl, old, new) ==
    IF old # new /\ Truthy(new) THEN update_one_inc(pl, new[1], 1) ELSE pl

\* create_track: the playlist count update (server.py 225-229)
IncCreated(pl, pid) ==
    IF Truthy(pid) THEN update_one_inc(pl, pid[1], 1) ELSE pl

\* delete_track: the playlist count update (server.py 321-325)
DecDeleted(pl, pid) ==
    IF Truthy(pid) THEN update_one_inc(pl, pid[1], -1) ELSE pl

\* the delta on playlist p that the count updates above issue
Delta(old, new, p) ==
    (IF old # new /\ Truthy(new) /\ new = Some(p) THEN 1 ELSE 0)
  - (IF old # new /\ Truthy(old) /\ old = Some(p) THEN 1 ELSE 0)

\* exploration limits on the counters
CanDec(pl, pid) ==
    Truthy(pid) /\ pid[1] \in DOMAIN pl => pl[pid[1]].track_count > -MaxDeficit
CanInc(pl, pid) ==
    Truthy(pid) /\ pid[1] \in DOMAIN pl => pl[pid[1]].track_count < MaxTracks + 1

(***************************************************************************)
(* Requests                                                                *)
(***************************************************************************)
\* a well-formed id that no track ever had
GhostTrackId == "t0"

\* the ids a client can name: generated ones (live or deleted) and others
TrackIdInputs == IssuedTrackIds \cup {GhostTrackId}
PlaylistIdInputs == IssuedPlaylistIds \cup {GhostId}

\* the playlist_id values a TrackCreate / TrackUpdate can carry
AssignmentInputs ==
    {None, Some("")} \cup {Some(p) : p \in PlaylistIdInputs}

\* TrackCreate bodies (the fields the handlers compute with; artist, album,
\* bpm, duration and the blobs are carried like title)
CreateReqs ==
    {[title |-> "Strobe", key |-> Text(0, "A minor", 0), energy |-> 8,
      playlist_id |-> a] : a \in AssignmentInputs}

\* TrackUpdate bodies: each field None (absent or null) or Some(value)
UpdateReqs ==
    {[title |-> f[1], key |-> f[2], energy |-> f[3], playlist_id |-> a] :
        f \in {<<None, None, None>>,
               <<Some("Strobe"), Some(Text(1, "Am", 0)), Some(8)>>},
        a \in AssignmentInputs}

\* PlaylistCreate bodies (description and emoji are carried like name)
PlaylistReqs == {[name |-> "Peak Time Bangers"]}

\* a completed request: what was asked, the status returned, and what the
\* handler had read from (or matched in) the store before it wrote
Response(op, id, req, status, read) ==
    [op |-> op, id |-> id, req |-> req, status |-> status, read |-> read]

(***************************************************************************)
(* Handlers run to completion (Spec)                                       *)
(***************************************************************************)
\* POST /tracks (server.py 200-231)
create_track(req) ==
    LET id == TrackIdOf(nTracks + 1)
        track == NewTrack(req)
    IN  /\ nTracks < MaxTracks
        /\ CanInc(playlists, track.playlist_id)
        /\ tracks' = insert_one(tracks, id, track)
        /\ playlists' = IncCreated(playlists, track.playlist_id)
        /\ nTracks' = nTracks + 1
        /\ last' = Response("create_track", id, req, 200, None)
        /\ UNCHANGED <<nPlaylists, workers, net>>

\* PUT /tracks/{track_id} (server.py 275-311).  An empty $set is refused
\* by stores older than MongoDB 5.0 and accepted as a no-op by newer ones.
update_track(track_id, req) ==
    IF ~Found(tracks, track_id)
    THEN /\ last' = Response("update_track", track_id, req, 404, None)
         /\ UNCHANGED <<tracks, playlists, nTracks, nPlaylists, workers, net>>
    ELSE LET old_playlist_id == tracks[track_id].playlist_id
             new_playlist_id == NewPlaylistId(req)
             update_dict == UpdateDict(req)
         IN  \E refused \in (IF DOMAIN update_dict = {} THEN BOOLEAN ELSE {FALSE}) :
               IF refused
               THEN /\ last' = Response("update_track", track_id, req, 500, Some(tracks[track_id]))
                    /\ UNCHANGED <<tracks, playlists, nTracks, nPlaylists, workers, net>>
               ELSE /\ old_playlist_id # new_playlist_id =>
                         CanDec(playlists, old_playlist_id) /\ CanInc(playlists, new_playlist_id)
                    /\ tracks' = update_one_set(tracks, track_id, update_dict)
                    /\ playlists' = IncNew(DecOld(playlists, old_playlist_id, new_playlist_id),
                                           old_playlist_id, new_playlist_id)
                    /\ last' = Response("update_track", track_id, req, 200, Some(tracks[track_id]))
                    /\ UNCHANGED <<nTracks, nPlaylists, workers, net>>

\* DELETE /tracks/{track_id} (server.py 313-328)
delete_track(track_id) ==
    IF ~Found(tracks, track_id)
    THEN /\ last' = Response("delete_track", track_id, None, 404, None)
         /\ UNCHANGED <<tracks, playlists, nTracks, nPlaylists, workers, net>>
    ELSE /\ CanDec(playlists, tracks[track_id].playlist_id)
         /\ playlists' = DecDeleted(playlists, tracks[track_id].playlist_id)
         /\ tracks' = delete_one(tracks, track_id)
         /\ last' = Response("delete_track", track_id, None, 200, Some(tracks[track_id]))
         /\ UNCHANGED <<nTracks, nPlaylists, workers, net>>

\* POST /playlists (server.py 395-404)
create_playlist(req) ==
    LET id == PlaylistIdOf(nPlaylists + 1)
    IN  /\ nPlaylists < MaxPlaylists
        /\ playlists' = insert_one(playlists, id, NewPlaylist(req))
        /\ nPlaylists' = nPlaylists + 1
        /\ last' = Response("create_playlist", id, req, 200, None)
        /\ UNCHANGED <<tracks, nTracks, workers, net>>

\* PUT /playlists/{playlist_id} (server.py 420-437)
update_playlist(playlist_id, req) ==
    IF ~Found(playlists, playlist_id)
    THEN /\ last' = Response("update_playlist", playlist_id, req, 404, None)
         /\ UNCHANGED <<tracks, playlists, nTracks, nPlaylists, workers, net>>
    ELSE /\ playlists' = update_one_set(playlists, playlist_id, [name |-> req.name])
         /\ last' = Response("update_playlist", playlist_id, req, 200, Some(playlists[playlist_id]))
         /\ UNCHANGED <<tracks, nTracks, nPlaylists, workers, net>>

\* mutant: the tracks are unassigned before the playlist is looked up
delete_playlist_unchecked(playlist_id) ==
    /\ tracks' = update_many_unassign(tracks, playlist_id)
    /\ playlists' = delete_one(playlists, playlist_id)
    /\ last' = Response("delete_playlist", playlist_id, None,
                        IF Found(playlists, playlist_id) THEN 200 ELSE 404,
                        {t \in DOMAIN tracks : tracks[t].playlist_id = Some(playlist_id)})
    /\ UNCHANGED <<nTracks, nPlaylists, workers, net>>

\* DELETE /playlists/{playlist_id} (server.py 439-453)
delete_playlist(playlist_id) ==
    IF ~Found(playlists, playlist_id)
    THEN /\ last' = Response("delete_playlist", playlist_id, None, 404, None)
         /\ UNCHANGED <<tracks, playlists, nTracks, nPlaylists, workers, net>>
    ELSE /\ tracks' = update_many_unassign(tracks, playlist_id)
         /\ playlists' = delete_one(playlists, playlist_id)
         /\ last' = Response("delete_playlist", playlist_id, None, 200,
                            {t \in DOMAIN tracks : tracks[t].playlist_id = Some(playlist_id)})
         /\ UNCHANGED <<nTracks, nPlaylists, workers, net>>

(***************************************************************************)
(* Request workers                                                         *)
(***************************************************************************)
Workers == {"w1", "w2"}

Idle == [pc |-> "idle", id |-> "", req |-> None, old |-> None]

Init ==
    /\ tracks = <<>>
    /\ playlists = <<>>
    /\ nTracks = 0
    /\ nPlaylists = 0
    /\ last = Response("none", "", None, 0, None)
    /\ workers = [w \in Workers |-> Idle]
    /\ net = [p \in {PlaylistIdOf(n) : n \in 1..MaxPlaylists} |-> 0]

CreateTrack == \E req \in CreateReqs : create_track(req)
UpdateTrack == \E id \in TrackIdInputs, req \in UpdateReqs : update_track(id, req)
DeleteTrack == \E id \in TrackIdInputs : delete_track(id)
CreatePlaylist == \E req \in PlaylistReqs : create_playlist(req)
UpdatePlaylist == \E id \in PlaylistIdInputs, req \in PlaylistReqs : update_playlist(id, req)
DeletePlaylist == \E id \in PlaylistIdInputs : delete_playlist(id)

Next ==
    \/ CreateTrack
    \/ UpdateTrack
    \/ DeleteTrack
    \/ CreatePlaylist
    \/ UpdatePlaylist
    \/ DeletePlaylist

Spec == Init /\ [][Next]_vars

(***************************************************************************)
(* Handlers one awaited store call at a time (SpecConc)                    *)
(***************************************************************************)
ConcAssignmentInputs == {None} \cup {Some(p) : p \in IssuedPlaylistIds}

ConcCreateReqs ==
    {[title |-> "Strobe", key |-> Text(0, "A minor", 0), energy |-> 8,
      playlist_id |-> a] : a \in ConcAssignmentInputs}

\* updates that name a playlist (the reassignments that can overlap)
ConcUpdateReqs ==
    {[title |-> Some("Strobe"), key |-> None, energy |-> None, playlist_id |-> a] :
        a \in ConcAssignmentInputs \ {None}}

AllIdle == \A w \in Workers : workers[w].pc = "idle"

At(w, pc) == workers[w].pc = pc

Goto(w, pc, id, req, old) ==
    workers' = [workers EXCEPT ![w] = [pc |-> pc, id |-> id, req |-> req, old |-> old]]

Finish(w) == workers' = [workers EXCEPT ![w] = Idle]

\* a request that issued the count updates for old -> new has finished; the
\* account is kept for the playlists in the store (an id is never reused)
Account(old, new) ==
    net' = [p \in DOMAIN net |->
               IF p \in DOMAIN playlists THEN net[p] + Delta(old, new, p) ELSE 0]

\* create_track: await db.tracks.insert_one (server.py 222)
CreateInsert(w) ==
    \E req \in ConcCreateReqs :
        LET id == TrackIdOf(nTracks + 1)
            track == NewTrack(req)
        IN  /\ At(w, "idle")
            /\ nTracks < MaxTracks
            /\ tracks' = insert_one(tracks, id, track)
            /\ nTracks' = nTracks + 1
            /\ IF Truthy(track.playlist_id)
               THEN Goto(w, "create_inc", id, req, None)
               ELSE Finish(w)
            /\ UNCHANGED <<playlists, nPlaylists, last, net>>

\* create_track: await db.playlists.update_one $inc (server.py 225-229)
CreateInc(w) ==
    LET pid == NewTrack(workers[w].req).playlist_id
    IN  /\ At(w, "create_inc")
        /\ CanInc(playlists, pid)
        /\ playlists' = IncCreated(playlists, pid)
        /\ Account(None, pid)
        /\ Finish(w)
        /\ UNCHANGED <<tracks, nTracks, nPlaylists, last>>

\* update_track: await db.tracks.find_one (server.py 278-286)
UpdateFind(w) ==
    \E id \in IssuedTrackIds, req \in ConcUpdateReqs :
        /\ At(w, "idle")
        /\ IF Found(tracks, id)
           THEN Goto(w, "update_set", id, req, tracks[id].playlist_id)
           ELSE Finish(w)
        /\ UNCHANGED <<tracks, playlists, nTracks, nPlaylists, last, net>>

\* where update_track goes after $set, after the decrement, after the increment
AfterSet(old, new) ==
    IF old # new /\ Truthy(old) THEN "update_dec"
    ELSE IF old # new /\ Truthy(new) THEN "update_inc"
    ELSE "update_refetch"

AfterDec(old, new) ==
    IF Truthy(new) THEN "update_inc" ELSE "update_refetch"

\* update_track: await db.tracks.update_one $set (server.py 295)
UpdateSet(w) ==
    LET me == workers[w]
        update_dict == UpdateDict(me.req)
    IN  /\ At(w, "update_set")
        /\ \E refused \in (IF DOMAIN update_dict = {} THEN BOOLEAN ELSE {FALSE}) :
             IF refused
             THEN /\ Finish(w)
                  /\ UNCHANGED tracks
             ELSE /\ tracks' = update_one_set(tracks, me.id, update_dict)
                  /\ Goto(w, AfterSet(me.old, NewPlaylistId(me.req)), me.id, me.req, me.old)
        /\ UNCHANGED <<playlists, nTracks, nPlaylists, last, net>>

\* update_track: await db.playlists.update_one $inc -1 (server.py 299-303)
UpdateDec(w) ==
    LET me == workers[w]
        new == NewPlaylistId(me.req)
    IN  /\ At(w, "update_dec")
        /\ CanDec(playlists, me.old)
        /\ playlists' = DecOld(playlists, me.old, new)
        /\ Goto(w, AfterDec(me.old, new), me.id, me.req, me.old)
        /\ UNCHANGED <<tracks, nTracks, nPlaylists, last, net>>

\* update_track: await db.playlists.update_one $inc +1 (server.py 304-308)
UpdateInc(w) ==
    LET me == workers[w]
        new == NewPlaylistId(me.req)
    IN  /\ At(w, "update_inc")
        /\ CanInc(playlists, new)
        /\ playlists' = IncNew(playlists, me.old, new)
        /\ Goto(w, "update_refetch", me.id, me.req, me.old)
        /\ UNCHANGED <<tracks, nTracks, nPlaylists, last, net>>

\* update_track: await db.tracks.find_one and return (server.py 310-311);
\* Track(**None) raises when the track is gone, after the updates landed
UpdateRefetch(w) ==
    LET me == workers[w]
    IN  /\ At(w, "update_refetch")
        /\ Account(me.old, NewPlaylistId(me.req))
        /\ Finish(w)
        /\ UNCHANGED <<tracks, playlists, nTracks, nPlaylists, last>>

\* delete_track: await db.tracks.find_one (server.py 316-321)
DeleteFind(w) ==
    \E id \in IssuedTrackIds :
        /\ At(w, "idle")
        /\ IF ~Found(tracks, id) THEN Finish(w)
           ELSE IF Truthy(tracks[id].playlist_id)
                THEN Goto(w, "delete_dec", id, None, tracks[id].playlist_id)
                ELSE Goto(w, "delete_remove", id, None, tracks[id].playlist_id)
        /\ UNCHANGED <<tracks, playlists, nTracks, nPlaylists, last, net>>

\* delete_track: await db.playlists.update_one $inc -1 (server.py 322-325)
DeleteDec(w) ==
    LET me == workers[w]
    IN  /\ At(w, "delete_dec")
        /\ CanDec(playlists, me.old)
        /\ playlists' = DecDeleted(playlists, me.old)
        /\ Goto(w, "delete_remove", me.id, me.req, me.old)
        /\ UNCHANGED <<tracks, nTracks, nPlaylists, last, net>>

\* delete_track: await db.tracks.delete_one and return (server.py 327-328)
DeleteRemove(w) ==
    LET me == workers[w]
    IN  /\ At(w, "delete_remove")
        /\ tracks' = delete_one(tracks, me.id)
        /\ Account(me.old, None)
        /\ Finish(w)
        /\ UNCHANGED <<playlists, nTracks, nPlaylists, last>>

\* create_playlist: await db.playlists.insert_one (server.py 403)
PlaylistInsert(w) ==
    \E req \in PlaylistReqs :
        /\ At(w, "idle")
        /\ nPlaylists < MaxPlaylists
        /\ playlists' = insert_one(playlists, PlaylistIdOf(nPlaylists + 1), NewPlaylist(req))
        /\ nPlaylists' = nPlaylists + 1
        /\ UNCHANGED <<tracks, nTracks, last, workers, net>>

\* delete_playlist: await db.playlists.find_one (server.py 442-444)
PlaylistDeleteFind(w) ==
    \E id \in IssuedPlaylistIds :
        /\ At(w, "idle")
        /\ IF Found(playlists, id)
           THEN Goto(w, "playlist_unassign", id, None, None)
           ELSE Finish(w)
        /\ UNCHANGED <<tracks, playlists, nTracks, nPlaylists, last, net>>

\* delete_playlist: await db.tracks.update_many (server.py 447-450)
PlaylistUnassign(w) ==
    /\ At(w, "playlist_unassign")
    /\ tracks' = update_many_unassign(tracks, workers[w].id)
    /\ Goto(w, "playlist_remove", workers[w].id, None, None)
    /\ UNCHANGED <<playlists, nTracks, nPlaylists, last, net>>

\* delete_playlist: await db.playlists.delete_one and return (server.py 452-453)
PlaylistRemove(w) ==
    /\ At(w, "playlist_remove")
    /\ playlists' = delete_one(playlists, workers[w].id)
    /\ Finish(w)
    /\ UNCHANGED <<tracks, nTracks, nPlaylists, last, net>>

NextConc ==
    \/ \E w \in Workers : CreateInsert(w)
    \/ \E w \in Workers : CreateInc(w)
    \/ \E w \in Workers : UpdateFind(w)
    \/ \E w \in Workers : UpdateSet(w)
    \/ \E w \in Workers : UpdateDec(w)
    \/ \E w \in Workers : UpdateInc(w)
    \/ \E w \in Workers : UpdateRefetch(w)
    \/ \E w \in Workers : DeleteFind(w)
    \/ \E w \in Workers : DeleteDec(w)
    \/ \E w \in Workers : DeleteRemove(w)
    \/ \E w \in Workers : PlaylistInsert(w)
    \/ \E w \in Workers : PlaylistDeleteFind(w)
    \/ \E w \in Workers : PlaylistUnassign(w)
    \/ \E w \in Workers : PlaylistRemove(w)

SpecConc == Init /\ [][NextConc]_vars

(***************************************************************************)
(* SpecConc with the store calls of update_playlist (SpecConcAll)          *)
(***************************************************************************)
\* update_playlist: await db.playlists.find_one (server.py 423-425)
PlaylistUpdateFind(w) ==
    \E id \in IssuedPlaylistIds, req \in PlaylistReqs :
        /\ At(w, "idle")
        /\ IF Found(playlists, id)
           THEN Goto(w, "playlist_set", id, req, None)
           ELSE Finish(w)
        /\ UNCHANGED <<tracks, playlists, nTracks, nPlaylists, last, net>>

\* update_playlist: await db.playlists.update_one $set (server.py 427-434);
\* old keeps the matched count of the update result, which the code ignores
PlaylistUpdateSet(w) ==
    LET me == workers[w]
    IN  /\ At(w, "playlist_set")
        /\ playlists' = update_one_set(playlists, me.id, [name |-> me.req.name])
        /\ Goto(w, "playlist_refetch", me.id, me.req,
                Some(IF Found(playlists, me.id) THEN 1 ELSE 0))
        /\ UNCHANGED <<tracks, nTracks, nPlaylists, last, net>>

\* update_playlist: await db.playlists.find_one and return (server.py
\* 436-437); Playlist(**None) raises when the playlist is gone
PlaylistUpdateRefetch(w) ==
    /\ At(w, "playlist_refetch")
    /\ Finish(w)
    /\ UNCHANGED <<tracks, playlists, nTracks, nPlaylists, last, net>>

NextConcAll ==
    \/ NextConc
    \/ \E w \in Workers : PlaylistUpdateFind(w)
    \/ \E w \in Workers : PlaylistUpdateSet(w)
    \/ \E w \in Workers : PlaylistUpdateRefetch(w)

SpecConcAll == Init /\ [][NextConcAll]_vars

(***************************************************************************)
(* Read handlers and the harmonic suggestions (SpecLookup)                 *)
(***************************************************************************)
\* the set of elements of a list
Range(seq) == {seq[i] : i \in 1..Len(seq)}

\* the orders in which a find() without sort can return the documents S
Orderings(S) ==
    {f \in [1..Cardinality(S) -> S] : \A i, j \in 1..Cardinality(S) : f[i] = f[j] => i = j}

\* .to_list(100) (server.py 348): at most this many documents are fetched
FindLimit == 100

\* The orders explored for a find() without sort: every order of up to
\* MaxShuffle documents; of more documents, the order of insertion (the
\* natural order of a collection nothing was deleted from).
FindOrders(S) ==
    IF Cardinality(S) <= MaxShuffle THEN Orderings(S)
    ELSE {SelectSeq([n \in 1..nTracks |-> TrackIdOf(n)], LAMBDA t : t \in S)}

\* mutant: the tests for energy_boost and energy_drop are exchanged
Classify_exchanged(camelot, t_camelot) ==
    LET source_num == ParseInt(SubSeq(camelot, 1, Len(camelot) - 1))
        source_letter == camelot[Len(camelot)]
        t_num == ParseInt(SubSeq(t_camelot, 1, Len(t_camelot) - 1))
        t_letter == t_camelot[Len(t_camelot)]
    IN  IF t_camelot = camelot
        THEN [compatibility |-> "perfect", reason |-> "Same key - perfect harmonic match"]
        ELSE IF t_num = ((source_num - 2) % 12) + 1 /\ t_letter = source_letter
        THEN [compatibility |-> "energy_boost", reason |-> "Energy boost - raises the energy"]
        ELSE IF t_num = (source_num % 12) + 1 /\ t_letter = source_letter
        THEN [compatibility |-> "energy_drop", reason |-> "Energy drop - mellows the vibe"]
        ELSE IF t_num = source_num /\ t_letter # source_letter
        THEN [compatibility |-> "good", reason |-> "Relative major/minor - mood shift"]
        ELSE [compatibility |-> "good", reason |-> "Harmonically compatible"]

\* the compatibility and reason get_harmonic_suggestions gives a candidate
\* whose code is t_camelot, for the source code camelot (server.py 351-380)
Classify(camelot, t_camelot) ==
    LET source_num == ParseInt(SubSeq(camelot, 1, Len(camelot) - 1))
        source_letter == camelot[Len(camelot)]
        t_num == ParseInt(SubSeq(t_camelot, 1, Len(t_camelot) - 1))
        t_letter == t_camelot[Len(t_camelot)]
    IN  IF t_camelot = camelot
        THEN [compatibility |-> "perfect", reason |-> "Same key - perfect harmonic match"]
        ELSE IF t_num = (source_num % 12) + 1 /\ t_letter = source_letter
        THEN [compatibility |-> "energy_boost", reason |-> "Energy boost - raises the energy"]
        ELSE IF t_num = ((source_num - 2) % 12) + 1 /\ t_letter = source_letter
        THEN [compatibility |-> "energy_drop", reason |-> "Energy drop - mellows the vibe"]
        ELSE IF t_num = source_num /\ t_letter # source_letter
        THEN [compatibility |-> "good", reason |-> "Relative major/minor - mood shift"]
        ELSE [compatibility |-> "good", reason |-> "Harmonically compatible"]

Compatibility(camelot, t_camelot) == Classify(camelot, t_camelot).compatibility

\* priority.get(x.compatibility, 4) (server.py 389-390)
Priority(compatibility) ==
    CASE compatibility = "perfect" -> 0
      [] compatibility = "energy_boost" -> 1
      [] compatibility = "energy_drop" -> 2
      [] compatibility = "good" -> 3
      [] OTHER -> 4

\* the suggestions built from the candidates in the order found: candidates
\* without a code or with one that does not parse are skipped (354-386)
Suggest(camelot, found) ==
    LET code(t) == tracks[t].camelot_key
        kept == SelectSeq(found, LAMBDA t :
                    /\ Len(code(t)) > 0
                    /\ ParsesAsInt(SubSeq(code(t), 1, Len(code(t)) - 1)))
    IN  [i \in 1..Len(kept) |->
            [track |-> kept[i],
             compatibility |-> Compatibility(camelot, code(kept[i])),
             reason |-> Classify(camelot, code(kept[i])).reason]]

\* list.sort(key=priority): stable, equal priorities keep their order
RECURSIVE SortByPriority(_, _)
SortByPriority(suggestions, p) ==
    IF p > 4 THEN <<>>
    ELSE SelectSeq(suggestions, LAMBDA x : Priority(x.compatibility) = p)
           \o SortByPriority(suggestions, p + 1)

\* suggestions[:limit], limit of either sign
Slice(seq, limit) ==
    IF limit >= 0
    THEN SubSeq(seq, 1, IF limit < Len(seq) THEN limit ELSE Len(seq))
    ELSE SubSeq(seq, 1, Len(seq) + limit)

\* the limit query parameter (default 10)
LimitInputs == {1, 10}

\* GET /tracks/{track_id} (server.py 267-273)
get_track(track_id) ==
    /\ last' = IF Found(tracks, track_id)
               THEN Response("get_track", track_id, None, 200, Some(tracks[track_id]))
               ELSE Response("get_track", track_id, None, 404, None)
    /\ UNCHANGED <<tracks, playlists, nTracks, nPlaylists, workers, net>>

\* GET /playlists/{playlist_id} (server.py 412-418)
get_playlist(playlist_id) ==
    /\ last' = IF Found(playlists, playlist_id)
               THEN Response("get_playlist", playlist_id, None, 200, Some(playlists[playlist_id]))
               ELSE Response("get_playlist", playlist_id, None, 404, None)
    /\ UNCHANGED <<tracks, playlists, nTracks, nPlaylists, workers, net>>

\* the body of a 200 response and the candidates fetched for it: found is
\* None when the handler answered without querying db.tracks.find
Suggestions(suggestions, found) == [suggestions |-> suggestions, found |-> found]

\* mutant: no early return for a source without a code or with "?"
get_harmonic_suggestions_unguarded(track_id, limit) ==
    /\ IF ~Found(tracks, track_id)
       THEN last' = Response("get_harmonic_suggestions", track_id, Some(limit), 404, None)
       ELSE LET camelot == tracks[track_id].camelot_key
                compatible_keys == get_harmonic_keys(camelot)
                compatible_tracks ==
                    {t \in DOMAIN tracks \ {track_id} :
                        tracks[t].camelot_key \in Range(compatible_keys)}
            IN  \E order \in FindOrders(compatible_tracks) :
                  LET found == Slice(order, FindLimit)
                  IN  last' =
                        IF ~ParsesAsInt(SubSeq(camelot, 1, Len(camelot) - 1))
                        THEN Response("get_harmonic_suggestions", track_id,
                                      Some(limit), 500, None)
                        ELSE Response("get_harmonic_suggestions", track_id,
                                      Some(limit), 200,
                                      Suggestions(Slice(SortByPriority(
                                          Suggest(camelot, found), 0), limit),
                                          Some(found)))
    /\ UNCHANGED <<tracks, playlists, nTracks, nPlaylists, workers, net>>

\* GET /tracks/{track_id}/harmonic-suggestions (server.py 331-392); the
\* response is kept in read.  int(camelot[:-1]) at line 351 is outside any
\* try block: a source code whose number does not parse ends in a 500.
get_harmonic_suggestions(track_id, limit) ==
    /\ IF ~Found(tracks, track_id)
       THEN last' = Response("get_harmonic_suggestions", track_id, Some(limit), 404, None)
       ELSE LET camelot == tracks[track_id].camelot_key
            IN  IF Len(camelot) = 0 \/ camelot = Unmapped
                THEN last' = Response("get_harmonic_suggestions", track_id, Some(limit), 200,
                                      Suggestions(<<>>, None))
                ELSE LET compatible_keys == get_harmonic_keys(camelot)
                         compatible_tracks ==
                             {t \in DOMAIN tracks \ {track_id} :
                                 tracks[t].camelot_key \in Range(compatible_keys)}
                     IN  \E order \in FindOrders(compatible_tracks) :
                           LET found == Slice(order, FindLimit)
                           IN  last' =
                                 IF ~ParsesAsInt(SubSeq(camelot, 1, Len(camelot) - 1))
                                 THEN Response("get_harmonic_suggestions", track_id,
                                               Some(limit), 500, None)
                                 ELSE Response("get_harmonic_suggestions", track_id,
                                               Some(limit), 200,
                                               Suggestions(Slice(SortByPriority(
                                                   Suggest(camelot, found), 0), limit),
                                                   Some(found)))
    /\ UNCHANGED <<tracks, playlists, nTracks, nPlaylists, workers, net>>

GetTrack == \E id \in TrackIdInputs : get_track(id)
GetPlaylist == \E id \in PlaylistIdInputs : get_playlist(id)
GetHarmonicSuggestions ==
    \E id \in TrackIdInputs, limit \in LimitInputs : get_harmonic_suggestions(id, limit)

NextLookup ==
    \/ CreateTrack
    \/ UpdateTrack
    \/ DeleteTrack
    \/ CreatePlaylist
    \/ UpdatePlaylist
    \/ DeletePlaylist
    \/ GetTrack
    \/ GetPlaylist
    \/ GetHarmonicSuggestions

SpecLookup == Init /\ [][NextLookup]_vars

(***************************************************************************)
(* Suggestions over libraries of tracks in every key (SpecLibrary)         *)
(***************************************************************************)
\* the keys of the library tracks: the 24 of the table and one that is not
LibraryKeys ==
    {Plain(CamelotEntries[i][2]) : i \in 1..24} \cup {Plain("Q flat wrong")}

\* the tracks collection after POST /tracks with each of keys in turn
Library(keys) ==
    [t \in {TrackIdOf(n) : n \in 1..Len(keys)} |->
        NewTrack([title |-> "Strobe",
                  key |-> keys[CHOOSE n \in 1..Len(keys) : TrackIdOf(n) = t],
                  energy |-> 8, playlist_id |-> None])]

\* an F# minor track (11A) next to tracks in 11A, 12A, 10A and 11B
ExampleKeys ==
    <<Plain("F# minor"), Plain("Gb minor"), Plain("Db minor"), Plain("B minor"),
      Plain("A major")>>

\* an A minor track (8A), then as many C major tracks (8B) as one find()
\* fetches, then another A minor track
BulkKeys ==
    <<Plain("A minor")>> \o [n \in 1..FindLimit |-> Plain("C major")]
        \o <<Plain("A minor")>>

LibraryInputs ==
    UNION {[1..n -> LibraryKeys] : n \in 1..MaxLibrary} \cup {ExampleKeys, BulkKeys}

\* the limit query parameter: none, few, the default, more than any library
LibraryLimits == {0, 1, 2, 10, 200}

InitLibrary ==
    /\ \E keys \in LibraryInputs : tracks = Library(keys) /\ nTracks = Len(keys)
    /\ playlists = <<>>
    /\ nPlaylists = 0
    /\ last = Response("none", "", None, 0, None)
    /\ workers = [w \in Workers |-> Idle]
    /\ net = [p \in {PlaylistIdOf(n) : n \in 1..MaxPlaylists} |-> 0]

\* one request per behaviour: the handler writes nothing to the store
SuggestFromLibrary ==
    \E id \in DOMAIN tracks \cup {GhostTrackId}, limit \in LibraryLimits :
        /\ last.op = "none"
        /\ get_harmonic_suggestions(id, limit)

NextLibrary == SuggestFromLibrary

SpecLibrary == InitLibrary /\ [][NextLibrary]_vars

(***************************************************************************)
(* Track data with arbitrary energy values (SpecEnergy)                    *)
(***************************************************************************)
\* energy is a Python int: below, at and above the limits, and in between
EnergyInputs == {-3, 0, 1, 5, 10, 11}

EnergyCreateReqs ==
    {[title |-> "Strobe", key |-> Plain("A minor"), energy |-> e,
      playlist_id |-> None] : e \in EnergyInputs}

\* updates with and without an energy field
EnergyUpdateReqs ==
    {[title |-> Some("Strobe"), key |-> None, energy |-> e, playlist_id |-> None] :
        e \in {None} \cup {Some(x) : x \in EnergyInputs}}

CreateTrackEnergy == \E req \in EnergyCreateReqs : create_track(req)
UpdateTrackEnergy ==
    \E id \in TrackIdInputs, req \in EnergyUpdateReqs : update_track(id, req)

NextEnergy ==
    \/ CreateTrackEnergy
    \/ UpdateTrackEnergy

SpecEnergy == Init /\ [][NextEnergy]_vars

(***************************************************************************)
(* Track data with arbitrary key strings (SpecKey)                         *)
(***************************************************************************)
\* canonical names, aliases and unrecognised text, with and without
\* surrounding whitespace, and the empty string
KeyInputs ==
    {Plain("A minor"), Text(1, "C major", 1), Plain("Am"), Text(0, "F# minor", 1),
     Plain("Q flat wrong"), Text(1, "a minor", 0), Plain("")}

KeyCreateReqs ==
    {[title |-> "Strobe", key |-> k, energy |-> 8, playlist_id |-> None] :
        k \in KeyInputs}

\* updates with and without a key field
KeyUpdateReqs ==
    {[title |-> Some("Strobe"), key |-> k, energy |-> None, playlist_id |-> None] :
        k \in {None} \cup {Some(x) : x \in KeyInputs}}

CreateTrackKey == \E req \in KeyCreateReqs : create_track(req)
UpdateTrackKey ==
    \E id \in TrackIdInputs, req \in KeyUpdateReqs : update_track(id, req)

NextKey ==
    \/ CreateTrackKey
    \/ UpdateTrackKey

SpecKey == Init /\ [][NextKey]_vars

(***************************************************************************)
(* AI analysis (SpecAI)                                                    *)
(***************************************************************************)
\* What json.loads makes of the cleaned reply: a JSON object with the
\* fields the handler reads (each absent, None, or present), another JSON
\* value, or text that does not parse.
JsonObjects ==
    {[kind |-> "object", key |-> k, energy |-> e] :
        k \in {None} \cup {Some(x) : x \in KeyInputs},
        e \in {None} \cup {Some(x) : x \in EnergyInputs}}

JsonBodies == JsonObjects \cup {[kind |-> "array"], [kind |-> "garbage"]}

\* The reply of chat.send_message: it raises, or returns text that is the
\* body as it is, inside a ``` fence, or inside a ```json fence.
AiReplies ==
    {[raised |-> TRUE]} \cup
    {[raised |-> FALSE, fence |-> f, body |-> b] :
        f \in {"none", "plain", "json"}, b \in JsonBodies}

\* clean_response (server.py 499-504): the text between the first two
\* fences without its json tag, or the text itself, stripped
Clean(response) == response.body

\* result.get(field, default) on the parsed object
Get(result, field, default) ==
    IF result[field] = None THEN default ELSE result[field][1]

\* AIAnalysisResponse(...) of a parsed object (server.py 508-517); bpm and
\* confidence are carried like energy
Analysis(result) ==
    LET key == Get(result, "key", Plain("C major"))
        camelot == get_camelot_from_key(key)
    IN  [key |-> normalize_key(key),
         camelot_key |-> camelot,
         energy |-> Get(result, "energy", 5)]

\* POST /analyze-ai (server.py 456-520): every exception inside the try
\* block, a raising chat or json.loads or result.get, becomes a 500
analyze_with_ai(configured, reply) ==
    /\ last' =
         IF ~configured THEN Response("analyze_with_ai", "", reply, 500, None)
         ELSE IF reply.raised THEN Response("analyze_with_ai", "", reply, 500, None)
         ELSE IF Clean(reply).kind # "object"
              THEN Response("analyze_with_ai", "", reply, 500, None)
         ELSE Response("analyze_with_ai", "", reply, 200, Some(Analysis(Clean(reply))))
    /\ UNCHANGED <<tracks, playlists, nTracks, nPlaylists, workers, net>>

AnalyzeWithAi ==
    \E configured \in BOOLEAN, reply \in AiReplies : analyze_with_ai(configured, reply)

NextAI == AnalyzeWithAi

SpecAI == Init /\ [][NextAI]_vars

(***************************************************************************)
(* The normaliser and the codec applied to single inputs (SpecCodec)       *)
(***************************************************************************)
\* key strings: every canonical name, every alias, and text that is
\* neither, each with up to MaxPad whitespace characters on either side
KeyNames ==
    DOMAIN KEY_TO_CAMELOT \cup DOMAIN AliasOwner
        \cup {"Q flat wrong", "a minor", "H moll", ""}

CodecKeyInputs ==
    {Text(lead, core, trail) : lead \in 0..MaxPad, core \in KeyNames, trail \in 0..MaxPad}

\* Camelot codes: the 24 of the wheel and some that are not on it
CodeInputs ==
    {FormatCode(num, letter) : num \in 0..13, letter \in {"A", "B", "C"}}

\* the entry of camelot_to_key that GET /camelot-wheel serves for a code
\* (server.py 191-197), None when the dict has none
from_camelot(code) ==
    IF code \in DOMAIN CAMELOT_TO_KEY THEN Some(CAMELOT_TO_KEY[code]) ELSE None

NormalizeKey ==
    \E key \in CodecKeyInputs :
        /\ last' = Response("normalize_key", "", key, 200, normalize_key(key))
        /\ UNCHANGED <<tracks, playlists, nTracks, nPlaylists, workers, net>>

GetCamelotFromKey ==
    \E key \in CodecKeyInputs :
        /\ last' = Response("get_camelot_from_key", "", key, 200, get_camelot_from_key(key))
        /\ UNCHANGED <<tracks, playlists, nTracks, nPlaylists, workers, net>>

FromCamelot ==
    \E code \in CodeInputs :
        /\ last' = Response("from_camelot", "", code, 200, from_camelot(code))
        /\ UNCHANGED <<tracks, playlists, nTracks, nPlaylists, workers, net>>

NextCodec ==
    \/ NormalizeKey
    \/ GetCamelotFromKey
    \/ FromCamelot

SpecCodec == Init /\ [][NextCodec]_vars

(***************************************************************************)
(* get_harmonic_keys as a function of any string (SpecWheel)               *)
(***************************************************************************)
\* characters of the strings tried: digits, letters, and what int() treats
\* specially (sign, underscore, whitespace)
CodeAlphabet == {"0", "1", "2", "A", "B", "?", "-", "_", " "}

\* every string of up to MaxCodeLen of these characters, and the codes of
\* CodeInputs (two-digit numbers included)
HarmonicKeyInputs ==
    CodeInputs \cup UNION {[1..n -> CodeAlphabet] : n \in 0..MaxCodeLen}
        \cup {<<"1", "_", "0", "A">>, <<" ", "8", "A">>}

\* one call per behaviour: the function keeps no state between calls
GetHarmonicKeys ==
    \E camelot \in HarmonicKeyInputs :
        /\ last.op = "none"
        /\ last' = Response("get_harmonic_keys", "", camelot, 200, get_harmonic_keys(camelot))
        /\ UNCHANGED <<tracks, playlists, nTracks, nPlaylists, workers, net>>

NextWheel == GetHarmonicKeys

SpecWheel == Init /\ [][NextWheel]_vars

(***************************************************************************)
(* Handlers whose awaited store calls can raise (SpecFail)                 *)
(***************************************************************************)
\* An awaited motor call that raises (connection lost, write refused) leaves
\* the handler through the exception: the calls before it have landed, the
\* failed call and the calls after it have not, and the client gets 500.
\* failed is the number of the store call that raised, 0 when none did.
StatusOf(failed) == IF failed = 0 THEN 200 ELSE 500

\* create_track: 1 insert_one (server.py 222), 2 update_one $inc (225-229)
create_track_failing(req, failed) ==
    LET id == TrackIdOf(nTracks + 1)
        track == NewTrack(req)
    IN  /\ nTracks < MaxTracks
        /\ failed \in {0, 1} \cup (IF Truthy(track.playlist_id) THEN {2} ELSE {})
        /\ CanInc(playlists, track.playlist_id)
        /\ tracks' = IF failed = 1 THEN tracks ELSE insert_one(tracks, id, track)
        /\ playlists' = IF failed \in {1, 2} THEN playlists
                        ELSE IncCreated(playlists, track.playlist_id)
        /\ nTracks' = nTracks + 1
        /\ last' = Response("create_track", id, req, StatusOf(failed), None)
        /\ UNCHANGED <<nPlaylists, workers, net>>

\* update_track: 1 find_one (278), 2 update_one $set (295), 3 update_one
\* $inc -1 (300-303), 4 update_one $inc +1 (305-308), 5 find_one (310)
update_track_failing(track_id, req, failed) ==
    IF failed = 1
    THEN /\ last' = Response("update_track", track_id, req, 500, None)
         /\ UNCHANGED <<tracks, playlists, nTracks, nPlaylists, workers, net>>
    ELSE IF ~Found(tracks, track_id)
    THEN /\ failed = 0
         /\ last' = Response("update_track", track_id, req, 404, None)
         /\ UNCHANGED <<tracks, playlists, nTracks, nPlaylists, workers, net>>
    ELSE LET old_playlist_id == tracks[track_id].playlist_id
             new_playlist_id == NewPlaylistId(req)
             update_dict == UpdateDict(req)
             decremented == IF failed \in {2, 3} THEN playlists
                            ELSE DecOld(playlists, old_playlist_id, new_playlist_id)
         IN  /\ DOMAIN update_dict # {}
             /\ failed = 3 => old_playlist_id # new_playlist_id /\ Truthy(old_playlist_id)
             /\ failed = 4 => old_playlist_id # new_playlist_id /\ Truthy(new_playlist_id)
             /\ old_playlist_id # new_playlist_id =>
                  CanDec(playlists, old_playlist_id) /\ CanInc(playlists, new_playlist_id)
             /\ tracks' = IF failed = 2 THEN tracks
                          ELSE update_one_set(tracks, track_id, update_dict)
             /\ playlists' = IF failed \in {2, 3, 4} THEN decremented
                             ELSE IncNew(decremented, old_playlist_id, new_playlist_id)
             /\ last' = Response("update_track", track_id, req, StatusOf(failed),
                                 Some(tracks[track_id]))
             /\ UNCHANGED <<nTracks, nPlaylists, workers, net>>

\* delete_track: 1 find_one (316), 2 update_one $inc -1 (322-325),
\* 3 delete_one (327)
delete_track_failing(track_id, failed) ==
    IF failed = 1
    THEN /\ last' = Response("delete_track", track_id, None, 500, None)
         /\ UNCHANGED <<tracks, playlists, nTracks, nPlaylists, workers, net>>
    ELSE IF ~Found(tracks, track_id)
    THEN /\ failed = 0
         /\ last' = Response("delete_track", track_id, None, 404, None)
         /\ UNCHANGED <<tracks, playlists, nTracks, nPlaylists, workers, net>>
    ELSE /\ failed = 2 => Truthy(tracks[track_id].playlist_id)
         /\ CanDec(playlists, tracks[track_id].playlist_id)
         /\ playlists' = IF failed = 2 THEN playlists
                         ELSE DecDeleted(playlists, tracks[track_id].playlist_id)
         /\ tracks' = IF failed \in {2, 3} THEN tracks ELSE delete_one(tracks, track_id)
         /\ last' = Response("delete_track", track_id, None, StatusOf(failed),
                             Some(tracks[track_id]))
         /\ UNCHANGED <<nTracks, nPlaylists, workers, net>>

CreateTrackFailing ==
    \E req \in ConcCreateReqs, failed \in 0..2 : create_track_failing(req, failed)
UpdateTrackFailing ==
    \E id \in IssuedTrackIds, req \in ConcUpdateReqs, failed \in 0..5 :
        update_track_failing(id, req, failed)
DeleteTrackFailing ==
    \E id \in IssuedTrackIds, failed \in 0..3 : delete_track_failing(id, failed)

NextFail ==
    \/ CreatePlaylist
    \/ CreateTrackFailing
    \/ UpdateTrackFailing
    \/ DeleteTrackFailing

SpecFail == Init /\ [][NextFail]_vars

(***************************************************************************)
(* Properties                                                              *)
(***************************************************************************)
count(p) == playlists[p].track_count

\* the step just taken completed request op with status 200
Did(op) == last'.op = op /\ last'.status = 200

\* no playlist was added or removed and none but those in S changed its count
CountsKeptExcept(S) ==
    /\ DOMAIN playlists' = DOMAIN playlists
    /\ \A p \in DOMAIN playlists \ S :
         playlists'[p].track_count = playlists[p].track_count

\* C1: after any sequence of completed, non-overlapping requests, every
\* stored playlist's track_count equals the number of stored tracks whose
\* playlist_id is that playlist's id.
C1_CountEqualsAssigned ==
    \A p \in DOMAIN playlists : count(p) = Assigned(p)

\* C2: in every reachable state, also while requests overlap, every stored
\* playlist's track_count is at least 0.
C2_CountNeverNegative ==
    \A p \in DOMAIN playlists : count(p) >= 0

\* C3: an update_track that does not change the track's assignment (it
\* carries no playlist field, or names the playlist the track already has)
\* leaves every playlist's track_count unchanged.
C3_UpdateWithoutReassignKeepsCounts ==
    [][(/\ Did("update_track")
        /\ \/ last'.req.playlist_id = None
           \/ last'.req.playlist_id = tracks[last'.id].playlist_id)
       => CountsKeptExcept({})]_vars

C5_UnassignThroughUpdate ==
    [][(/\ Did("update_track")
        /\ last'.req.playlist_id = None
        /\ Truthy(tracks[last'.id].playlist_id)
        /\ tracks[last'.id].playlist_id[1] \in DOMAIN playlists)
       => /\ tracks'[last'.id].playlist_id = None
          /\ playlists'[tracks[last'.id].playlist_id[1]].track_count
                = count(tracks[last'.id].playlist_id[1]) - 1]_vars

\* C6: create_track with stored playlist P adds 1 to P's count, which is not
\* negative afterwards, and a delete_track of that track right after it
\* takes the 1 back, leaving the count P had before the creation;
\* create_track without assignment changes no playlist's count.
C6_CreateThenDeleteNetZero ==
    [][/\ (Did("create_track") /\ Truthy(last'.req.playlist_id)
              /\ last'.req.playlist_id[1] \in DOMAIN playlists)
          => /\ playlists'[last'.req.playlist_id[1]].track_count
                   = count(last'.req.playlist_id[1]) + 1
             /\ playlists'[last'.req.playlist_id[1]].track_count >= 0
             /\ CountsKeptExcept({last'.req.playlist_id[1]})
       /\ (Did("create_track") /\ ~Truthy(last'.req.playlist_id))
          => CountsKeptExcept({})
       /\ (/\ last.op = "create_track" /\ Truthy(last.req.playlist_id)
           /\ last.req.playlist_id[1] \in DOMAIN playlists
           /\ Did("delete_track") /\ last'.id = last.id)
          => /\ playlists'[last.req.playlist_id[1]].track_count
                   = count(last.req.playlist_id[1]) - 1
             /\ playlists'[last.req.playlist_id[1]].track_count >= 0]_vars

\* C7: delete_playlist(P) of a stored playlist sets the assignment of every
\* track assigned to P to none and changes nothing else of any track,
\* deletes no track, removes P and leaves every other playlist as it was.
C7_DeletePlaylistUnassigns ==
    [][Did("delete_playlist") =>
        LET P == last'.id
        IN  /\ DOMAIN tracks' = DOMAIN tracks
            /\ \A t \in DOMAIN tracks :
                 tracks'[t] = IF tracks[t].playlist_id = Some(P)
                              THEN [tracks[t] EXCEPT !.playlist_id = None]
                              ELSE tracks[t]
            /\ DOMAIN playlists' = DOMAIN playlists \ {P}
            /\ \A q \in DOMAIN playlists' : playlists'[q] = playlists[q]]_vars

\* C7 witness: p1 has just been deleted with a track in it, while another
\* track stays assigned to stored playlist p2
C7_Witness ==
    /\ last.op = "delete_playlist" /\ last.status = 200 /\ last.id = "p1"
    /\ last.read # {}
    /\ \A t \in last.read : t \in DOMAIN tracks /\ tracks[t].playlist_id = None
    /\ "p2" \in DOMAIN playlists /\ count("p2") = 1
    /\ \E t \in DOMAIN tracks : tracks[t].playlist_id = Some("p2")

\* C8: while requests overlap, no state that another worker can read shows
\* a playlist whose track_count differs from the number of tracks pointing
\* at it: the track-side write and the count write(s) of a request appear
\* as one step.
C8_NoIntermediateStateVisible ==
    \A p \in DOMAIN playlists :
        \A n \in 0..MaxTracks : Assigned(p) = n => count(p) = n

\* C9: for any interleaving of the store calls of overlapping requests,
\* once every request has finished each stored playlist's track_count
\* equals the number of tracks assigned to it.
C9_QuiescentCountEqualsAssigned ==
    AllIdle => \A p \in DOMAIN playlists : count(p) = Assigned(p)

\* the deltas on playlist p that the request worker w is running has
\* already sent to the store
Landed(w, p) ==
    LET me == workers[w]
    IN  CASE me.pc = "update_inc" ->
               -(IF Truthy(me.old) /\ me.old = Some(p) THEN 1 ELSE 0)
          [] me.pc = "update_refetch" -> Delta(me.old, NewPlaylistId(me.req), p)
          [] me.pc = "delete_remove" ->
               -(IF Truthy(me.old) /\ me.old = Some(p) THEN 1 ELSE 0)
          [] OTHER -> 0

RECURSIVE LandedBy(_, _)
LandedBy(W, p) ==
    IF W = {} THEN 0
    ELSE LET w == CHOOSE x \in W : TRUE
         IN  Landed(w, p) + LandedBy(W \ {w}, p)

\* C10: no count update is lost: in every interleaving a stored playlist's
\* track_count is the sum of all deltas the requests have sent for it, those
\* of finished requests and those of requests still running.
C10_NoLostCountUpdate ==
    \A p \in DOMAIN playlists : count(p) = net[p] + LandedBy(Workers, p)

\* C10 witness: two requests on different tracks are both running and each
\* has sent its +1 for p1
C10_Witness ==
    /\ "p1" \in DOMAIN playlists
    /\ \A w \in Workers :
         /\ workers[w].pc = "update_refetch"
         /\ workers[w].req.playlist_id = Some("p1")
         /\ workers[w].old # Some("p1")
    /\ workers["w1"].id # workers["w2"].id
    /\ count("p1") = net["p1"] + 2

\* the step just taken completed request op with a store failure (500)
Failed(op) == last'.op = op /\ last'.status = 500

\* C11: when a store call of create_track, update_track or delete_track
\* fails partway, the request reports failure and the store shows either
\* none of the request's writes or all of them (the track-side change and
\* every count adjustment), never a part of them.
C11_FailureLeavesNoPartialUpdate ==
    [][/\ Failed("create_track") =>
            \/ tracks' = tracks /\ playlists' = playlists
            \/ /\ tracks' = insert_one(tracks, last'.id, NewTrack(last'.req))
               /\ playlists' = IncCreated(playlists, last'.req.playlist_id)
       /\ Failed("update_track") =>
            \/ tracks' = tracks /\ playlists' = playlists
            \/ /\ tracks' = update_one_set(tracks, last'.id, UpdateDict(last'.req))
               /\ playlists' = IncNew(DecOld(playlists, tracks[last'.id].playlist_id,
                                             NewPlaylistId(last'.req)),
                                      tracks[last'.id].playlist_id, NewPlaylistId(last'.req))
       /\ Failed("delete_track") =>
            \/ tracks' = tracks /\ playlists' = playlists
            \/ /\ tracks' = delete_one(tracks, last'.id)
               /\ playlists' = DecDeleted(playlists, tracks[last'.id].playlist_id)]_vars

\* the request just completed named a playlist id that is not in the store
NamesMissingPlaylist ==
    /\ last'.op \in {"create_track", "update_track"}
    /\ last'.op = "update_track" => last'.id \in DOMAIN tracks
    /\ Truthy(last'.req.playlist_id)
    /\ last'.req.playlist_id[1] \notin DOMAIN playlists

\* C12: create_track or update_track naming a playlist id that is not in
\* the store fails with NotFound (404) and stores or changes no track, so
\* that no track ends up assigned to a playlist that does not exist.
C12_UnknownPlaylistIsNotFound ==
    [][NamesMissingPlaylist =>
        /\ last'.status = 404
        /\ tracks' = tracks
        /\ \A t \in DOMAIN tracks' :
             tracks'[t].playlist_id # last'.req.playlist_id]_vars

\* the requests that look a track, respectively a playlist, up by its id
TrackLookups == {"get_track", "update_track", "delete_track", "get_harmonic_suggestions"}
PlaylistLookups == {"get_playlist", "update_playlist", "delete_playlist"}

\* C13: get_track, update_track, delete_track and get_harmonic_suggestions
\* on a track id that is not in the store, and get_playlist, update_playlist
\* and delete_playlist on a playlist id that is not in the store, return
\* NotFound (404) and leave every track and every playlist record, counts
\* included, as they were.
C13_NotFoundChangesNothing ==
    [][(\/ last'.op \in TrackLookups /\ last'.id \notin DOMAIN tracks
        \/ last'.op \in PlaylistLookups /\ last'.id \notin DOMAIN playlists)
       => /\ last'.status = 404
          /\ tracks' = tracks
          /\ playlists' = playlists]_vars

\* C13 witness: a request on the id of a deleted track has just been
\* answered 404 while a track in p1 and p1 with its count are still stored
C13_Witness ==
    /\ last.op \in TrackLookups /\ last.status = 404
    /\ last.id \in IssuedTrackIds
    /\ \E t \in DOMAIN tracks : tracks[t].playlist_id = Some("p1")
    /\ "p1" \in DOMAIN playlists /\ count("p1") = 1

\* C14: every stored track has energy in 1..10 after any sequence of
\* create_track and update_track calls with arbitrary integer energies: a
\* value below 1 is stored as 1, a value above 10 as 10, a value in range
\* as it is, and an update without energy keeps the stored one.
C14_EnergyClamped ==
    [][LET Clamped(e) == IF e < 1 THEN 1 ELSE IF e > 10 THEN 10 ELSE e
       IN  /\ \A t \in DOMAIN tracks' : tracks'[t].energy \in 1..10
           /\ Did("create_track") =>
                tracks'[last'.id].energy = Clamped(last'.req.energy)
           /\ (Did("update_track") /\ last'.req.energy # None) =>
                tracks'[last'.id].energy = Clamped(last'.req.energy[1])
           /\ (Did("update_track") /\ last'.req.energy = None) =>
                tracks'[last'.id].energy = tracks[last'.id].energy]_vars

\* C14 witness: a track stored with energy 10 has just been updated with
\* energy -3 and holds 1, next to a track whose energy is 5
C14_Witness ==
    /\ last.op = "update_track" /\ last.status = 200
    /\ last.req.energy = Some(-3)
    /\ last.read[1].energy = 10
    /\ tracks[last.id].energy = 1
    /\ \E t \in DOMAIN tracks : tracks[t].energy = 5

\* C15: for every stored track, after any sequence of create_track and
\* update_track calls with arbitrary key strings, the stored camelot_key is
\* the Camelot code of the stored key and the stored key is the normalised
\* submitted key; an update without a key leaves both fields as they were.
C15_CamelotFollowsKey ==
    [][/\ \A t \in DOMAIN tracks' :
            tracks'[t].camelot_key = get_camelot_from_key(tracks'[t].key)
       /\ Did("create_track") =>
            tracks'[last'.id].key = normalize_key(last'.req.key)
       /\ (Did("update_track") /\ last'.req.key # None) =>
            tracks'[last'.id].key = normalize_key(last'.req.key[1])
       /\ (Did("update_track") /\ last'.req.key = None) =>
            /\ tracks'[last'.id].key = tracks[last'.id].key
            /\ tracks'[last'.id].camelot_key = tracks[last'.id].camelot_key]_vars

\* C15 witness: a track stored as A minor / 8A has just been updated with
\* the padded alias "F# minor " and holds Gb minor / 11A, next to a track
\* whose unrecognised key is stored with the code "?"
C15_Witness ==
    /\ last.op = "update_track" /\ last.status = 200
    /\ last.req.key = Some(Text(0, "F# minor", 1))
    /\ last.read[1].key = Plain("A minor")
    /\ last.read[1].camelot_key = FormatCode(8, "A")
    /\ tracks[last.id].key = Plain("Gb minor")
    /\ tracks[last.id].camelot_key = FormatCode(11, "A")
    /\ \E t \in DOMAIN tracks :
         tracks[t].key = Plain("Q flat wrong") /\ tracks[t].camelot_key = Unmapped

\* C16: the result of analyze_with_ai goes through the same normalisation
\* and clamping as user-supplied track data: for any (key, energy) the
\* external AI function returns, the reported key is the normalised key,
\* the reported camelot_key is its Camelot code and the reported energy
\* lies in 1..10.
C16_AiResultNormalisedAndClamped ==
    (/\ last.op = "analyze_with_ai" /\ last.status = 200
     /\ last.req.body.key # None /\ last.req.body.energy # None)
    => /\ last.read[1].key = normalize_key(last.req.body.key[1])
       /\ last.read[1].camelot_key = get_camelot_from_key(last.req.body.key[1])
       /\ last.read[1].energy \in 1..10

\* C17: when the external AI function fails or returns a malformed reply
\* (one that does not parse, or parses but has no key), analyze_with_ai
\* reports that the analysis failed and returns no result whose key was
\* filled in with a default.
C17_NoDefaultKey ==
    (/\ last.op = "analyze_with_ai"
     /\ \/ last.req.raised
        \/ last.req.body.kind # "object"
        \/ last.req.body.key = None)
    => last.status = 500

\* the 24 codes of the wheel: 1A..12A and 1B..12B
WheelCodes == {FormatCode(num, letter) : num \in 1..12, letter \in {"A", "B"}}

\* C18: the key/Camelot table is a bijection between the 24 canonical key
\* names and the 24 codes 1A..12A, 1B..12B: the code of a canonical name
\* maps back to that name, the name of a code maps back to that code, and
\* 8A pairs with A minor, 8B with C major.
C18_TableIsBijection ==
    /\ DOMAIN CAMELOT_TO_KEY = WheelCodes
    /\ Cardinality(DOMAIN KEY_TO_CAMELOT) = 24
    /\ (last.op = "get_camelot_from_key" /\ last.req[2] \in DOMAIN KEY_TO_CAMELOT)
       => /\ last.read \in WheelCodes
          /\ from_camelot(last.read) = Some(last.req[2])
    /\ (last.op = "from_camelot" /\ last.req \in WheelCodes)
       => /\ last.read # None
          /\ get_camelot_from_key(Plain(last.read[1])) = last.req
    /\ (last.op = "from_camelot" /\ last.req = FormatCode(8, "A"))
       => last.read = Some("A minor")
    /\ (last.op = "from_camelot" /\ last.req = FormatCode(8, "B"))
       => last.read = Some("C major")

\* C18 witness: 12B has been looked up and gave E major
C18_Witness ==
    /\ last.op = "from_camelot"
    /\ last.req = FormatCode(12, "B")
    /\ last.read = Some("E major")

\* C19: normalize_key is idempotent: normalising its result again gives the
\* same result, for every canonical name, alias and unrecognised string.
C19_NormalizeIdempotent ==
    last.op = "normalize_key" => normalize_key(last.read) = last.read

\* C19 witness: the padded alias " F#m " has been normalised to Gb minor
C19_Witness ==
    /\ last.op = "normalize_key"
    /\ last.req = Text(1, "F#m", 1)
    /\ last.read = Plain("Gb minor")

\* the entries of the alias table that list name among their alternatives
AliasOwners(name) ==
    {i \in 1..Len(ALT_KEY_NAMES) : name \in Range(ALT_KEY_NAMES[i][2])}

\* C20: normalize_key resolves in this order: a trimmed input that is one
\* of the 24 canonical names is returned as it is; otherwise an alias is
\* mapped to the one canonical name that owns it; otherwise the trimmed
\* input is returned unchanged, and nothing is rejected.
C20_ResolutionOrder ==
    last.op = "normalize_key" =>
        LET trimmed == last.req[2]
        IN  /\ last.status = 200
            /\ IF trimmed \in DOMAIN KEY_TO_CAMELOT
               THEN last.read = Plain(trimmed)
               ELSE IF AliasOwners(trimmed) # {}
               THEN /\ Cardinality(AliasOwners(trimmed)) = 1
                    /\ \A i \in AliasOwners(trimmed) :
                         /\ last.read = Plain(ALT_KEY_NAMES[i][1])
                         /\ ALT_KEY_NAMES[i][1] \in DOMAIN KEY_TO_CAMELOT
               ELSE last.read = Plain(trimmed)

\* C20 witness: the unrecognised " Q flat wrong" came back trimmed, as
\* itself
C20_Witness ==
    /\ last.op = "normalize_key"
    /\ last.req = Text(1, "Q flat wrong", 0)
    /\ last.read = Plain("Q flat wrong")

\* C21: get_camelot_from_key fails closed: it returns the sentinel "?"
\* exactly when the normalised input is not one of the 24 canonical names,
\* a code {1..12}{A|B} otherwise, and raises for no input string.
C21_CodecFailsClosed ==
    last.op = "get_camelot_from_key" =>
        LET canonical == normalize_key(last.req)[2] \in Range([i \in 1..24 |-> CamelotEntries[i][2]])
        IN  /\ last.status = 200
            /\ (last.read = Unmapped) <=> ~canonical
            /\ canonical => last.read \in WheelCodes

\* C21 witness: "Q flat wrong" has been encoded and gave "?"
C21_Witness ==
    /\ last.op = "get_camelot_from_key"
    /\ last.req = Plain("Q flat wrong")
    /\ last.read = Unmapped

\* C23: for every valid code nL (n in 1..12, L in {A, B}) get_harmonic_keys
\* returns exactly the codes nL, the next number with L, the previous number
\* with L, and n with the other letter, where 12 is followed by 1 and 1 is
\* preceded by 12: 8A gives {8A, 9A, 7A, 8B}, 1A includes 12A and 2A, 12B
\* includes 1B and 11B.
C23_NeighboursOfValidCode ==
    last.op = "get_harmonic_keys" =>
        /\ \A n \in 1..12, L \in {"A", "B"} :
              last.req = FormatCode(n, L) =>
                  Range(last.read) =
                      {FormatCode(n, L),
                       FormatCode(IF n = 12 THEN 1 ELSE n + 1, L),
                       FormatCode(IF n = 1 THEN 12 ELSE n - 1, L),
                       FormatCode(n, IF L = "A" THEN "B" ELSE "A")}
        /\ last.req = FormatCode(8, "A") =>
              Range(last.read) = {FormatCode(8, "A"), FormatCode(9, "A"),
                                  FormatCode(7, "A"), FormatCode(8, "B")}
        /\ last.req = FormatCode(1, "A") =>
              {FormatCode(12, "A"), FormatCode(2, "A")} \subseteq Range(last.read)
        /\ last.req = FormatCode(12, "B") =>
              {FormatCode(1, "B"), FormatCode(11, "B")} \subseteq Range(last.read)

C23_Witness ==
    /\ last.op = "get_harmonic_keys"
    /\ last.req = FormatCode(12, "B")
    /\ last.read = <<FormatCode(12, "B"), FormatCode(1, "B"), FormatCode(11, "B"),
                     FormatCode(12, "A")>>

\* a decimal numeral: digits, with at most one sign in front
IsNumber(s) ==
    \/ IsDigits(s)
    \/ Len(s) > 1 /\ s[1] \in {"+", "-"} /\ IsDigits(Tail(s))

\* C24: for every malformed code, that is every string shorter than 2
\* characters (the empty string and "?" among them) and every string whose
\* prefix before the last character is not a number, get_harmonic_keys
\* returns the empty list and does not fail.
C24_MalformedCodeYieldsEmpty ==
    (/\ last.op = "get_harmonic_keys"
     /\ \/ Len(last.req) < 2
        \/ ~IsNumber(SubSeq(last.req, 1, Len(last.req) - 1)))
    => last.status = 200 /\ last.read = <<>>

\* the source of a suggestions request and its code
SourceCode == tracks[last.id].camelot_key

\* a suggestions request for a stored track with a code of the wheel
Suggested ==
    /\ last.op = "get_harmonic_suggestions"
    /\ last.id \in DOMAIN tracks
    /\ SourceCode \in WheelCodes

\* C22: a track whose camelot_key is "?" appears in the suggestion list of
\* no track, and a suggestions request for a track whose code is "?" or
\* empty returns the empty list, without error and without querying the
\* candidates.
C22_UnmappedNeverSuggested ==
    last.op = "get_harmonic_suggestions" /\ last.id \in DOMAIN tracks =>
        /\ last.status = 200 =>
              \A i \in 1..Len(last.read.suggestions) :
                  tracks[last.read.suggestions[i].track].camelot_key # Unmapped
        /\ SourceCode \in {Unmapped, <<>>} =>
              /\ last.status = 200
              /\ last.read.suggestions = <<>>
              /\ last.read.found = None

C22_Witness ==
    /\ last.op = "get_harmonic_suggestions"
    /\ last.id = "t1"
    /\ DOMAIN tracks = {"t1", "t2"}
    /\ tracks["t1"].camelot_key = Unmapped
    /\ tracks["t2"].camelot_key = Unmapped
    /\ last.read = Suggestions(<<>>, None)

\* the tracks of a suggestions response
Returned == {last.read.suggestions[i].track : i \in 1..Len(last.read.suggestions)}

\* the stored tracks other than the source whose code is a neighbour of the
\* source's code
Compatible ==
    {t \in DOMAIN tracks \ {last.id} :
        tracks[t].camelot_key \in Range(get_harmonic_keys(SourceCode))}

\* C25: for a source with a valid code, every returned track is a stored
\* track other than the source whose code is a neighbour of the source's
\* code; the source itself is never returned; and a different track with
\* the same code as the source is returned unless the limit cut the list.
C25_SuggestionsAreOtherCompatibleTracks ==
    Suggested /\ last.status = 200 =>
        /\ Returned \subseteq Compatible
        /\ last.id \notin Returned
        /\ (last.req[1] >= 0 /\ Len(last.read.suggestions) < last.req[1]) =>
              \A t \in DOMAIN tracks \ {last.id} :
                  tracks[t].camelot_key = SourceCode => t \in Returned

\* C26: for every valid source code nL, a candidate with the same code is
\* classified perfect, one with the next number and L energy_boost, one with
\* the previous number and L energy_drop, and one with n and the other
\* letter good (source 11A: 11A perfect, 12A energy_boost, 10A energy_drop,
\* 11B good); no candidate gets the generic fallback.
C26_NeighboursClassified ==
    Suggested /\ last.status = 200 =>
        \A i \in 1..Len(last.read.suggestions), n \in 1..12, L \in {"A", "B"} :
            LET s == last.read.suggestions[i]
                code == tracks[s.track].camelot_key
            IN  SourceCode = FormatCode(n, L) =>
                  /\ code = FormatCode(n, L) => s.compatibility = "perfect"
                  /\ code = FormatCode(IF n = 12 THEN 1 ELSE n + 1, L) =>
                        s.compatibility = "energy_boost"
                  /\ code = FormatCode(IF n = 1 THEN 12 ELSE n - 1, L) =>
                        s.compatibility = "energy_drop"
                  /\ code = FormatCode(n, IF L = "A" THEN "B" ELSE "A") =>
                        /\ s.compatibility = "good"
                        /\ s.reason = "Relative major/minor - mood shift"
                  /\ s.reason # "Harmonically compatible"

\* the 11A source of the example library with its 11A, 12A, 10A and 11B
\* neighbours, ranked
C26_Witness ==
    /\ last.op = "get_harmonic_suggestions"
    /\ last.id = "t1"
    /\ SourceCode = FormatCode(11, "A")
    /\ Len(last.read.suggestions) = 4
    /\ [i \in 1..4 |-> tracks[last.read.suggestions[i].track].camelot_key] =
           <<FormatCode(11, "A"), FormatCode(12, "A"), FormatCode(10, "A"),
             FormatCode(11, "B")>>
    /\ [i \in 1..4 |-> last.read.suggestions[i].compatibility] =
           <<"perfect", "energy_boost", "energy_drop", "good">>

\* C27: for limit >= 0 the returned list is the first limit entries of the
\* stable sort by class priority of all compatible candidates in the store,
\* however many there are: it has min(limit, number of compatible
\* candidates) entries, its priorities never decrease, candidates of one
\* class keep the order the store gave them, and no candidate left out is
\* of a strictly better class than one included.
C27_FirstLimitOfSortOfAll ==
    Suggested /\ last.status = 200 /\ last.req[1] >= 0 =>
        LET sug == last.read.suggestions
            found == last.read.found[1]
            rank(i) == Priority(sug[i].compatibility)
            place(t) == CHOOSE k \in 1..Len(found) : found[k] = t
        IN  /\ Len(sug) = IF last.req[1] < Cardinality(Compatible)
                          THEN last.req[1] ELSE Cardinality(Compatible)
            /\ \A i, j \in 1..Len(sug) :
                  i < j => /\ rank(i) <= rank(j)
                           /\ rank(i) = rank(j) => place(sug[i].track) < place(sug[j].track)
            /\ \A t \in Compatible \ Returned, i \in 1..Len(sug) :
                  Priority(Classify(SourceCode, tracks[t].camelot_key).compatibility)
                      >= rank(i)

\* C28: delete_track of a track assigned to P removes the track record
\* before it decrements P.track_count: when the request fails between the
\* two steps the track is gone and the count is one too high, and there is
\* never a still stored, still assigned track whose playlist's count was
\* already decremented.
C28_RemovalBeforeDecrement ==
    [][(/\ Failed("delete_track")
        /\ Found(tracks, last'.id)
        /\ Truthy(tracks[last'.id].playlist_id)
        /\ playlists' # playlists)
       => ~Found(tracks', last'.id)]_vars

\* C29: no deleted entity is resurrected.  Once a track or playlist id has
\* been issued and no record with it is in the store, no step of any
\* operation, later or concurrent (a count adjustment aimed at the id, the
\* $set of an update_playlist or update_track that read the record before
\* it was deleted), makes a record with that id exist again.
C29_NoResurrection ==
    [][/\ \A t \in IssuedTrackIds : ~Found(tracks, t) => ~Found(tracks', t)
       /\ \A p \in IssuedPlaylistIds : ~Found(playlists, p) => ~Found(playlists', p)]_vars

\* p1 was deleted while an update_playlist of p1 was between its find_one
\* and its $set; the $set has been issued and matched nothing
C29_Witness ==
    /\ ~Found(playlists, "p1") /\ nPlaylists >= 1
    /\ \E w \in Workers :
          /\ At(w, "playlist_refetch")
          /\ workers[w].id = "p1"
          /\ workers[w].old = Some(0)

\* C30: referential integrity of assignments.  In every state between
\* completed operations, also after a create_track or update_track naming P
\* ran interleaved with a delete_playlist(P), the playlist_id of every
\* stored track is none or the id of a playlist in the store.
C30_AssignmentsReferToPlaylists ==
    AllIdle =>
        \A t \in DOMAIN tracks :
            \/ tracks[t].playlist_id = None
            \/ /\ Truthy(tracks[t].playlist_id)
               /\ Found(playlists, tracks[t].playlist_id[1])

\* C31: the neighbour relation is symmetric and closed over the 24 valid
\* codes: for valid codes a and b, b is in get_harmonic_keys(a) exactly when
\* a is in get_harmonic_keys(b), and every element of get_harmonic_keys(a)
\* is a valid code.  Hence, where neither the limit nor the fetch cap cuts
\* a list, track X is suggested for track Y exactly when Y would be
\* suggested for X.
C31_NeighboursSymmetricAndClosed ==
    Suggested /\ last.status = 200 =>
        /\ Range(get_harmonic_keys(SourceCode)) \subseteq WheelCodes
        /\ \A b \in WheelCodes :
              b \in Range(get_harmonic_keys(SourceCode))
                  <=> SourceCode \in Range(get_harmonic_keys(b))
        /\ (/\ Cardinality(DOMAIN tracks) <= FindLimit
            /\ last.req[1] >= Cardinality(DOMAIN tracks)) =>
              \A x \in DOMAIN tracks \ {last.id} :
                  x \in Returned
                      <=> /\ tracks[x].camelot_key \in WheelCodes
                          /\ SourceCode \in Range(get_harmonic_keys(tracks[x].camelot_key))

\* a 1A track is suggested for a 12A track, across the wrap of the wheel
C31_Witness ==
    /\ Suggested
    /\ DOMAIN tracks = {"t1", "t2"}
    /\ last.id = "t1"
    /\ SourceCode = FormatCode(12, "A")
    /\ tracks["t2"].camelot_key = FormatCode(1, "A")
    /\ last.req = Some(10)
    /\ Returned = {"t2"}

====
